---- MODULE Spec2Model ----
(***************************************************************************)
(* A model of hezar's configuration layer: the dict-like Config dataclass  *)
(* (configs.py), the registry lookups and flatten_dict (config_utils.py).  *)
(***************************************************************************)
EXTENDS Integers, Sequences, FiniteSets, TLC

VARIABLES
    obj,        \* the live Config instance: [cls, d] with d its __dict__
    ctor,       \* the config_type the instance was constructed with
    fs,         \* the local path: [isdir, file]
    hub,        \* the file a same-named hub repository serves, or NoFile
    ret,        \* what the last call did: its inputs and its outcome
    nops,       \* calls made so far
    lk,         \* the last registry lookup pair (SpecLookup)
    fl,         \* the last flatten_dict call (SpecFlatten)
    push        \* a push_to_hub call in progress (SpecPush)

vars == <<obj, ctor, fs, hub, ret, nops, lk, fl, push>>

(***************************************************************************)
(* Bounds                                                                  *)
(***************************************************************************)
MaxOps == 3
MaxNameLen == 3
MaxPushes == 2
MaxItems == 4

(***************************************************************************)
(* Values and mappings.  A mapping is a function from the keys it holds; a *)
(* value is a record whose fields say what it is, so any two compare.      *)
(***************************************************************************)
None == [none |-> TRUE]

Str(x) == [s |-> x]

Dict(m) == [dict |-> m]

Cfg(c, m) == [cls |-> c, fields |-> m]

Missing == [missing |-> TRUE]

IsScalar(v) == DOMAIN v = {"s"}

IsDict(v) == DOMAIN v = {"dict"}

IsConfig(v) == DOMAIN v = {"cls", "fields"}

Empty == [k \in {} |-> None]

One(k, v) == [x \in {k} |-> v]

\* m[k], or Missing when m does not hold k.
At(m, k) == IF k \in DOMAIN m THEN m[k] ELSE Missing

\* dict.update: the entries of b over those of a.
Over(a, b) ==
    [k \in DOMAIN a \cup DOMAIN b |-> IF k \in DOMAIN b THEN b[k] ELSE a[k]]

Without(m, keys) == [k \in DOMAIN m \ keys |-> m[k]]

(***************************************************************************)
(* The Config classes of configs.py: each class's dataclass fields with    *)
(* their defaults.  Config.name has no default, so it is an __init__       *)
(* parameter but no class attribute.                                       *)
(***************************************************************************)
Methods ==
    {"keys", "pop", "dict", "get", "update", "load", "from_dict", "save",
     "push_to_hub"}

ConfigDefaults == [config_type |-> Str("base")]

ModelConfigDefaults == [name |-> None, config_type |-> Str("model")]

PreprocessorConfigDefaults == [name |-> None, config_type |-> Str("preprocessor")]

DatasetConfigDefaults ==
    [name |-> None, config_type |-> Str("dataset"), task |-> None]

CriterionConfigDefaults ==
    [name |-> None, config_type |-> Str("criterion"), weight |-> None,
     reduce |-> None, ignore_index |-> Str("-100")]

LRSchedulerConfigDefaults ==
    [name |-> None, config_type |-> Str("lr_scheduler"), verbose |-> Str("True")]

OptimizerConfigDefaults ==
    [name |-> None, config_type |-> Str("optimizer"), lr |-> None,
     weight_decay |-> None]

TrainConfigDefaults ==
    [name |-> None, config_type |-> Str("train"), device |-> Str("cuda"),
     optimizer |-> None, batch_size |-> None, metrics |-> None,
     metrics_kwargs |-> None, num_train_epochs |-> None,
     checkpoints_dir |-> None]

\* The config class the distilbert model registers: a ModelConfig with the
\* fields the model reads.
DistilBertTextClassificationConfigDefaults ==
    [name |-> Str("distilbert_text_classification"),
     config_type |-> Str("model"), num_labels |-> None, dim |-> Str("768")]

\* The config classes of the embeddings and metrics, which configs.py does
\* not define: a name and the kind's config_type.
EmbeddingConfigDefaults == [name |-> None, config_type |-> Str("embedding")]

MetricConfigDefaults == [name |-> None, config_type |-> Str("metric")]

Defaults(c) ==
    CASE c = "Config" -> ConfigDefaults
      [] c = "ModelConfig" -> ModelConfigDefaults
      [] c = "PreprocessorConfig" -> PreprocessorConfigDefaults
      [] c = "DatasetConfig" -> DatasetConfigDefaults
      [] c = "CriterionConfig" -> CriterionConfigDefaults
      [] c = "LRSchedulerConfig" -> LRSchedulerConfigDefaults
      [] c = "OptimizerConfig" -> OptimizerConfigDefaults
      [] c = "TrainConfig" -> TrainConfigDefaults
      [] c = "EmbeddingConfig" -> EmbeddingConfigDefaults
      [] c = "MetricConfig" -> MetricConfigDefaults
      [] OTHER -> DistilBertTextClassificationConfigDefaults

\* The parameters of the generated __init__: the dataclass fields.
InitParams(c) == DOMAIN Defaults(c) \cup {"name"}

\* hasattr(cls, k): a class attribute, which is a field's default or a method.
hasattr_cls(c, k) == k \in DOMAIN Defaults(c) \/ k \in Methods

\* hasattr(self, k): the instance's __dict__, then the class.
hasattr_self(o, k) == k \in DOMAIN o.d \/ hasattr_cls(o.cls, k)

\* cls(**kw): every field becomes an instance attribute, the default where kw
\* gives none.  A keyword that is no field, or a missing `name` on the base
\* class, is a TypeError.
construct(c, kw) ==
    IF \/ DOMAIN kw \ InitParams(c) # {}
       \/ InitParams(c) \ DOMAIN Over(Defaults(c), kw) # {}
    THEN [status |-> "TypeError", cls |-> c, d |-> Empty]
    ELSE [status |-> "ok", cls |-> c, d |-> Over(Defaults(c), kw)]

(***************************************************************************)
(* The registry: per kind, the entries the modules registered.             *)
(***************************************************************************)
Entry(k, m, c) == [key |-> k, module_class |-> m, config_class |-> c]

models_registry ==
    {Entry("distilbert_text_classification", "DistilBertTextClassification",
           "DistilBertTextClassificationConfig")}

preprocessors_registry == {Entry("tokenizer", "Tokenizer", "PreprocessorConfig")}

datasets_registry ==
    {Entry("sequence_labeling", "SequenceLabelingDataset", "DatasetConfig")}

embeddings_registry == {Entry("word2vec", "Word2Vec", "EmbeddingConfig")}

metrics_registry == {Entry("seqeval", "Seqeval", "MetricConfig")}

optimizers_registry == {Entry("adam", "Adam", "OptimizerConfig")}

lr_schedulers_registry ==
    {Entry("reduce_on_plateau", "ReduceLROnPlateau", "LRSchedulerConfig")}

criterions_registry ==
    {Entry("cross_entropy", "CrossEntropyLoss", "CriterionConfig")}

\* The kinds the registry is partitioned by, as config_type strings.
Kinds ==
    {"model", "preprocessor", "dataset", "embedding", "metric", "optimizer",
     "lr_scheduler", "criterion"}

Registry ==
    [t \in Kinds |->
        CASE t = "model" -> models_registry
          [] t = "preprocessor" -> preprocessors_registry
          [] t = "dataset" -> datasets_registry
          [] t = "embedding" -> embeddings_registry
          [] t = "metric" -> metrics_registry
          [] t = "optimizer" -> optimizers_registry
          [] t = "lr_scheduler" -> lr_schedulers_registry
          [] OTHER -> criterions_registry]

RegKeys(reg, t) == {e.key : e \in reg[t]}

RegEntry(reg, t, k) == CHOOSE e \in reg[t] : e.key = k

NoLookup == [status |-> "none", key |-> <<>>, cls |-> ""]

\* The registries get_module_config_class can select.
ConfigRegistries == {"model", "preprocessor", "dataset", "embedding"}

\* get_module_config_class(name, config_type) against the registry `reg`.
get_module_config_class(reg, name, config_type) ==
    IF config_type \notin ConfigRegistries
    THEN [status |-> "ValueError", key |-> name, cls |-> ""]
    ELSE IF name \notin RegKeys(reg, config_type)
    THEN [status |-> "KeyError", key |-> name, cls |-> ""]
    ELSE [status |-> "ok", key |-> name,
          cls |-> RegEntry(reg, config_type, name).config_class]

(***************************************************************************)
(* Files.  A YAML file is the mapping it holds.                            *)
(***************************************************************************)
NoFile == [exists |-> FALSE, m |-> Empty]

File(m) == [exists |-> TRUE, m |-> m]

\* OmegaConf writes a nested Config as the mapping of its fields: the file
\* does not record the class.
to_yaml(v) == IF IsConfig(v) THEN Dict(v.fields) ELSE v

\* The items Config.save writes: the __dict__ without its None items.
saved_items(d) == {k \in DOMAIN d : d[k] # None}

\* Config.save: the file it writes.
save(o) == File([k \in saved_items(o.d) |-> to_yaml(o.d[k])])

\* The items of the mapping that from_dict hands to the constructor.
init_items(c, m) == {k \in DOMAIN m : hasattr_cls(c, k)}

\* Config.from_dict(dict_config, **kwargs): `strict` is popped and not read.
from_dict(c, dict_config, kwargs) ==
    LET merged == Over(dict_config, Without(kwargs, {"strict"}))
    IN  construct(c, [k \in init_items(c, merged) |-> merged[k]])

Fail(e, fetched) == [status |-> e, fetched |-> fetched, cls |-> "", d |-> Empty]

\* The directory check left out: a missing local file goes on to the hub.
local_missing_unchecked(f) == FALSE

\* The path exists locally as a directory but the config file is not in it.
local_missing(f) == f.isdir /\ ~f.file.exists

\* resolve_pretrained_path: a path that is a local directory is returned as
\* it is; any other becomes a repository id, which names nothing on disk.
resolve_pretrained_path(f) ==
    IF f.isdir THEN f ELSE [isdir |-> FALSE, file |-> NoFile]

\* Config.load(hub_or_local_path, **kwargs) where the path is as `f0` says
\* and the hub serves `h` for it.
load(f0, h, kwargs) ==
    LET f == resolve_pretrained_path(f0)
        is_local == f.file.exists
        fetched == ~is_local
        config == IF is_local THEN f.file.m ELSE h.m
    IN  IF local_missing(f) THEN Fail("EnvironmentError", FALSE)
        ELSE IF ~is_local /\ ~h.exists THEN Fail("HubError", TRUE)
        ELSE IF {"name", "config_type"} \ DOMAIN config # {}
        THEN Fail("KeyError", fetched)
        ELSE LET found == get_module_config_class(
                              Registry, config["name"].s, config["config_type"].s)
             IN  IF found.status # "ok" THEN Fail(found.status, fetched)
                 ELSE IF "strict" \in DOMAIN kwargs THEN Fail("TypeError", fetched)
                 ELSE LET made == from_dict(found.cls, config, kwargs)
                      IN  [status |-> made.status, fetched |-> fetched,
                           cls |-> made.cls, d |-> made.d]

(***************************************************************************)
(* The calls on a Config instance.                                         *)
(***************************************************************************)
NoCall ==
    [op |-> "init", status |-> "ok", key |-> "", arg |-> Empty, kw |-> Empty,
     val |-> Missing, keys |-> {}, warned |-> {}, cls |-> "", d |-> Empty, fetched |-> FALSE,
     pre |-> Empty]

\* getattr(self, k): the instance's __dict__, then the class's default.
getattr(o, k) == IF k \in DOMAIN o.d THEN o.d[k] ELSE At(Defaults(o.cls), k)

\* Config.update(d, **kwargs): d.update(kwargs), then per item a warning when
\* the key is no attribute, and setattr in either case.
update(o, d, kwargs) == [o EXCEPT !.d = Over(o.d, Over(d, kwargs))]

update_warnings(o, d, kwargs) ==
    {k \in DOMAIN Over(d, kwargs) : ~hasattr_self(o, k)}

\* Config.pop(key, default=None): dict() is the live __dict__, so the key
\* leaves the instance.
pop(o, key) == [o EXCEPT !.d = Without(o.d, {key})]

Update(d, kwargs) ==
    /\ nops < MaxOps
    /\ obj' = update(obj, d, kwargs)
    /\ ret' = [NoCall EXCEPT !.op = "update", !.arg = d, !.kw = kwargs,
                              !.warned = update_warnings(obj, d, kwargs),
                              !.pre = obj.d]
    /\ nops' = nops + 1
    /\ UNCHANGED <<ctor, fs, hub, lk, fl, push>>

Pop(key) ==
    /\ nops < MaxOps
    /\ obj' = pop(obj, key)
    /\ ret' = [NoCall EXCEPT !.op = "pop", !.key = key, !.pre = obj.d,
                              !.val = IF key \in DOMAIN obj.d THEN obj.d[key]
                                      ELSE None]
    /\ nops' = nops + 1
    /\ UNCHANGED <<ctor, fs, hub, lk, fl, push>>

\* Config.get(key, default): getattr with the default.
Get(key) ==
    /\ nops < MaxOps
    /\ ret' = [NoCall EXCEPT !.op = "get", !.key = key, !.pre = obj.d,
                              !.val = IF hasattr_self(obj, key)
                                      THEN getattr(obj, key) ELSE None]
    /\ nops' = nops + 1
    /\ UNCHANGED <<obj, ctor, fs, hub, lk, fl, push>>

\* Config.__getitem__(item): the __dict__ entry, or a ValueError.
GetItem(key) ==
    /\ nops < MaxOps
    /\ ret' = [NoCall EXCEPT !.op = "getitem", !.key = key, !.pre = obj.d,
                              !.status = IF key \in DOMAIN obj.d THEN "ok"
                                         ELSE "ValueError",
                              !.val = At(obj.d, key)]
    /\ nops' = nops + 1
    /\ UNCHANGED <<obj, ctor, fs, hub, lk, fl, push>>

\* Config.keys(), and iteration and len, which read the same __dict__.
Keys ==
    /\ nops < MaxOps
    /\ ret' = [NoCall EXCEPT !.op = "keys", !.pre = obj.d, !.keys = DOMAIN obj.d]
    /\ nops' = nops + 1
    /\ UNCHANGED <<obj, ctor, fs, hub, lk, fl, push>>

\* Config.save(save_dir): makes the directory and writes the file.
Save ==
    /\ nops < MaxOps
    /\ fs' = [isdir |-> TRUE, file |-> save(obj)]
    /\ ret' = [NoCall EXCEPT !.op = "save", !.pre = obj.d]
    /\ nops' = nops + 1
    /\ UNCHANGED <<obj, ctor, hub, lk, fl, push>>

\* Config.load(path, **kwargs) on the path fs describes.
Load(kwargs) ==
    /\ nops < MaxOps
    /\ LET r == load(fs, hub, kwargs)
       IN  ret' = [NoCall EXCEPT !.op = "load", !.kw = kwargs, !.pre = obj.d,
                                 !.status = r.status, !.fetched = r.fetched,
                                 !.cls = r.cls, !.d = r.d]
    /\ nops' = nops + 1
    /\ UNCHANGED <<obj, ctor, fs, hub, lk, fl, push>>

\* cls.from_dict(dict_config, **kwargs), called directly.
FromDict(c, dict_config, kwargs) ==
    /\ nops < MaxOps
    /\ LET r == from_dict(c, dict_config, kwargs)
       IN  ret' = [NoCall EXCEPT !.op = "from_dict", !.arg = dict_config,
                                 !.kw = kwargs, !.pre = obj.d,
                                 !.status = r.status, !.cls = c, !.d = r.d]
    /\ nops' = nops + 1
    /\ UNCHANGED <<obj, ctor, fs, hub, lk, fl, push>>

NoLookups ==
    [name |-> <<>>, kind |-> "", config |-> NoLookup, module |-> NoLookup]

NoFlatten == [called |-> FALSE, input |-> <<>>, output |-> <<>>]

NoPush ==
    [pc |-> "idle", n |-> 0, repo |-> FALSE, cache |-> NoFile,
     written |-> NoFile, remote |-> NoFile, done |-> <<>>, error |-> ""]

(***************************************************************************)
(* Inputs.                                                                 *)
(***************************************************************************)
\* Instances as a caller constructs them.
Instances ==
    { construct("DistilBertTextClassificationConfig", Empty),
      construct("DistilBertTextClassificationConfig", One("num_labels", Str("2"))),
      construct("OptimizerConfig",
                Over(One("name", Str("adam")), One("lr", Str("2e-5")))),
      construct("TrainConfig",
                Over(One("name", Str("trainer")),
                     One("optimizer",
                         Cfg("OptimizerConfig",
                             construct("OptimizerConfig",
                                 [name |-> Str("adam"), lr |-> Str("2e-5"),
                                  weight_decay |-> Str("0.01")]).d)))) }

UpdateArgs ==
    { One("bogus_field", Str("1")),
      One("num_labels", Str("3")),
      One("config_type", Str("dataset")),
      One("optimizer", Dict(One("lr", Str("0.1")))),
      One("optimizer",
          Cfg("OptimizerConfig",
              construct("OptimizerConfig",
                        [name |-> Str("sgd"), lr |-> Str("0.5")]).d)) }

StrictArgs == {Empty, One("strict", Str("True")), One("strict", Str("False"))}

CallKeys == {"config_type", "num_labels", "bogus_field"}

LoadArgs ==
    { Empty, One("num_labels", Str("5")), One("bogus_field", Str("7")),
      One("keys", Str("9")), One("strict", Str("True")) }

DictArgs ==
    { One("name", Str("distilbert_text_classification")),
      Over(One("name", Str("adam")), One("bogus_field", Str("1"))) }

FromDictClasses == {"DistilBertTextClassificationConfig", "OptimizerConfig"}

(***************************************************************************)
(* Spec: one Config instance and the calls made on it.                     *)
(***************************************************************************)
Idle ==
    /\ lk = NoLookups
    /\ fl = NoFlatten
    /\ push = NoPush

Init ==
    /\ \E i \in Instances : obj = [cls |-> i.cls, d |-> i.d]
    /\ ctor = obj.d["config_type"]
    /\ fs = [isdir |-> FALSE, file |-> NoFile]
    /\ hub = NoFile
    /\ ret = NoCall
    /\ nops = 0
    /\ Idle

Next ==
    \/ \E d \in UpdateArgs, kw \in StrictArgs : Update(d, kw)
    \/ \E k \in CallKeys : Pop(k)
    \/ \E k \in CallKeys : Get(k)
    \/ \E k \in CallKeys : GetItem(k)
    \/ Keys
    \/ Save
    \/ \E kw \in LoadArgs : Load(kw)
    \/ \E c \in FromDictClasses, d \in DictArgs, kw \in StrictArgs :
          FromDict(c, d, kw)

Spec == Init /\ [][Next]_vars

(***************************************************************************)
(* SpecLoad: Config.load over the local paths and hub repositories it can  *)
(* meet.                                                                   *)
(***************************************************************************)
FileNames ==
    UNION {RegKeys(Registry, t) : t \in Kinds} \cup {"unregistered"}

FileTypes == Kinds \cup {"train"}

FileExtras ==
    { Empty, One("num_labels", Str("3")), One("bogus_field", Str("1")),
      One("keys", Str("1")) }

LoadFiles ==
    { Over([name |-> Str(n), config_type |-> Str(t)], x) :
        n \in FileNames, t \in FileTypes, x \in FileExtras }
    \cup {One("config_type", Str("model"))}

HubFiles ==
    { One("name", Str("distilbert_text_classification")),
      [name |-> Str("distilbert_text_classification"), config_type |-> Str("model")],
      [name |-> Str("adam"), config_type |-> Str("optimizer")] }

InitLoad ==
    /\ obj = [cls |-> "ModelConfig", d |-> construct("ModelConfig", Empty).d]
    /\ ctor = obj.d["config_type"]
    /\ fs \in {[isdir |-> b, file |-> NoFile] : b \in BOOLEAN}
              \cup {[isdir |-> TRUE, file |-> File(m)] : m \in LoadFiles}
    /\ hub \in {NoFile} \cup {File(m) : m \in HubFiles}
    /\ ret = NoCall
    /\ nops = 0
    /\ Idle

NextLoad == \E kw \in LoadArgs : Load(kw)

SpecLoad == InitLoad /\ [][NextLoad]_vars

\* The mapping the last load parsed: the local file, else the hub's.
Parsed == IF fs.file.exists THEN fs.file.m ELSE hub.m

Readable == fs.file.exists \/ (~fs.isdir /\ hub.exists)

\* C1: load on a path that is a local directory without the config file fails
\* with the config-file-missing error and fetches nothing from the hub,
\* whatever a same-named hub repository holds.
LocalMissingIsFatal ==
    (ret.op = "load" /\ fs.isdir /\ ~fs.file.exists)
        => (ret.status = "EnvironmentError" /\ ~ret.fetched)

LocalMissingIsFatal_witness ==
    /\ ret.op = "load" /\ fs.isdir /\ ~fs.file.exists
    /\ hub.exists /\ At(hub.m, "config_type") = Str("model")
    /\ ret.status = "EnvironmentError"

\* C2: load of a file whose name is a key registered under the kind its
\* config_type names returns an instance of the config class registered for
\* that pair, for every kind of the registry.
PolymorphicLoad ==
    (/\ ret.op = "load" /\ Readable
     /\ DOMAIN Parsed = {"name", "config_type"} /\ ret.kw = Empty
     /\ Parsed["config_type"].s \in Kinds
     /\ Parsed["name"].s \in RegKeys(Registry, Parsed["config_type"].s))
        => /\ ret.status = "ok"
           /\ ret.cls = RegEntry(Registry, Parsed["config_type"].s,
                                  Parsed["name"].s).config_class
           /\ ret.cls # "Config"

\* C9: when load resolves the config class, every field of that class holds
\* the override's value if one is given, else the file's, else the class
\* default, and no key of the file or of the overrides makes load fail.
LoadAppliesOverrides ==
    (/\ ret.op = "load" /\ Readable
     /\ {"name", "config_type"} \subseteq DOMAIN Parsed
     /\ get_module_config_class(Registry, Parsed["name"].s,
                                 Parsed["config_type"].s).status = "ok")
        => LET c == get_module_config_class(Registry, Parsed["name"].s,
                                            Parsed["config_type"].s).cls
           IN  /\ ret.status = "ok"
               /\ \A k \in InitParams(c) :
                     At(ret.d, k) = IF k \in DOMAIN ret.kw THEN ret.kw[k]
                                    ELSE IF k \in DOMAIN Parsed THEN Parsed[k]
                                    ELSE Defaults(c)[k]

(***************************************************************************)
(* Claims about the calls on an instance (Spec).                           *)
(***************************************************************************)
AllScalar(m) == \A k \in DOMAIN m : IsScalar(m[k])

\* C3: a config whose fields are all serializable and non-None, saved to a
\* directory and loaded back from it, is equal field for field.
RoundTrip ==
    (/\ ret.op = "load" /\ ret.kw = Empty
     /\ fs.file = save(obj) /\ AllScalar(obj.d))
        => (ret.status = "ok" /\ ret.d = obj.d)

Before == [cls |-> obj.cls, d |-> ret.pre]

UnknownKeys(o, m) == {k \in DOMAIN m : ~hasattr_self(o, k)}

\* C4: a merge whose overrides hold a key that is no field of the config fails
\* with an unknown-config-field error under strict=True and leaves the config
\* as it was; under strict=False it sets the field and warns.
StrictMergeRejectsUnknowns ==
    /\ (/\ ret.op = "update" /\ UnknownKeys(Before, ret.arg) # {}
        /\ ret.kw = One("strict", Str("True")))
          => (ret.status = "UnknownConfigFieldError" /\ obj.d = ret.pre)
    /\ (/\ ret.op = "update" /\ UnknownKeys(Before, ret.arg) # {}
        /\ ret.kw = One("strict", Str("False")))
          => /\ ret.status = "ok"
             /\ \A k \in UnknownKeys(Before, ret.arg) :
                    At(obj.d, k) = ret.arg[k] /\ k \in ret.warned
    /\ (/\ ret.op = "from_dict" /\ DOMAIN ret.arg \ InitParams(ret.cls) # {}
        /\ ret.kw = One("strict", Str("True")))
          => ret.status = "UnknownConfigFieldError"

\* C5: the instance's config_type, read as an attribute or as
\* c["config_type"], is the one it was constructed with, whatever calls were
\* made on it.
ConfigTypeImmutable ==
    getattr(obj, "config_type") = ctor /\ At(obj.d, "config_type") = ctor

\* C7: an override that gives a plain mapping for a field holding a nested
\* Config merges into it field by field: the value stays a Config of its class
\* and the fields the mapping does not name keep their values; a Config given
\* as the override replaces it.
MergeIsRecursive ==
    /\ (/\ ret.op = "update" /\ IsConfig(At(ret.pre, "optimizer"))
        /\ IsDict(At(ret.arg, "optimizer")))
          => obj.d["optimizer"] =
                Cfg(ret.pre["optimizer"].cls,
                    Over(ret.pre["optimizer"].fields, ret.arg["optimizer"].dict))
    /\ (ret.op = "update" /\ IsConfig(At(ret.arg, "optimizer")))
          => obj.d["optimizer"] = ret.arg["optimizer"]

(***************************************************************************)
(* SpecLookup: the two registry lookups on the same name and kind.  Names  *)
(* are sequences of characters over a small alphabet.                      *)
(***************************************************************************)
Alphabet == {"a", "A", "-", "_"}

IsUpper(ch) == ch = "A"

IsLower(ch) == ch = "a"

RECURSIVE Flat(_)
Flat(ss) == IF ss = <<>> THEN <<>> ELSE Head(ss) \o Flat(Tail(ss))

\* s.replace("-", " ")
dash_to_space(s) == [i \in 1..Len(s) |-> IF s[i] = "-" THEN " " ELSE s[i]]

\* sub("([A-Z]+)", r" \1", s): a space before every run of capitals.
space_runs(s) ==
    Flat([i \in 1..Len(s) |->
            IF IsUpper(s[i]) /\ (i = 1 \/ ~IsUpper(s[i - 1]))
            THEN <<" ", s[i]>> ELSE <<s[i]>>])

\* sub("([A-Z][a-z]+)", r" \1", s): a space before every capitalised word.
space_words(s) ==
    Flat([i \in 1..Len(s) |->
            IF IsUpper(s[i]) /\ i < Len(s) /\ IsLower(s[i + 1])
            THEN <<" ", s[i]>> ELSE <<s[i]>>])

\* "_".join(s.split()): the words of s, an underscore between them.
RECURSIVE join_split(_, _, _)
join_split(s, out, gap) ==
    IF s = <<>> THEN out
    ELSE IF Head(s) = " " THEN join_split(Tail(s), out, out # <<>>)
    ELSE join_split(Tail(s),
                    IF gap THEN out \o <<"_", Head(s)>> ELSE Append(out, Head(s)),
                    FALSE)

lower(s) == [i \in 1..Len(s) |-> IF IsUpper(s[i]) THEN "a" ELSE s[i]]

snake_case(s) ==
    lower(join_split(space_words(space_runs(dash_to_space(s))), <<>>, FALSE))

\* The name get_module_class looks up.
module_key(name) == snake_case(name)

\* The registries get_module_class can select.
ModuleRegistries == ConfigRegistries \cup {"metric"}

\* get_module_class(name, module_type) against the registry `reg`.
get_module_class(reg, name, module_type) ==
    IF module_type \notin ModuleRegistries
    THEN [status |-> "ValueError", key |-> name, cls |-> ""]
    ELSE IF module_key(name) \notin RegKeys(reg, module_type)
    THEN [status |-> "KeyError", key |-> module_key(name), cls |-> ""]
    ELSE [status |-> "ok", key |-> module_key(name),
          cls |-> RegEntry(reg, module_type, module_key(name)).module_class]

\* A registry whose keys are written over Alphabet: two entries per kind.
LookupRegistry ==
    [t \in Kinds |->
        {Entry(<<"a">>, "Module1", "Config1"),
         Entry(<<"a", "_", "a">>, "Module2", "Config2")}]

RECURSIVE NamesOfLen(_)
NamesOfLen(n) ==
    IF n = 0 THEN {<<>>}
    ELSE {Append(w, ch) : w \in NamesOfLen(n - 1), ch \in Alphabet}

Names == UNION {NamesOfLen(n) : n \in 1..MaxNameLen}

Lookup(name, kind) ==
    /\ lk = NoLookups
    /\ lk' = [name |-> name, kind |-> kind,
              config |-> get_module_config_class(LookupRegistry, name, kind),
              module |-> get_module_class(LookupRegistry, name, kind)]
    /\ UNCHANGED <<obj, ctor, fs, hub, ret, nops, fl, push>>

InitLookup ==
    /\ obj = [cls |-> "ModelConfig", d |-> construct("ModelConfig", Empty).d]
    /\ ctor = obj.d["config_type"]
    /\ fs = [isdir |-> FALSE, file |-> NoFile]
    /\ hub = NoFile
    /\ ret = NoCall
    /\ nops = 0
    /\ Idle

NextLookup == \E name \in Names, kind \in Kinds : Lookup(name, kind)

SpecLookup == InitLookup /\ [][NextLookup]_vars

\* C6: for every kind and name the two lookups agree: a name that resolves to
\* an entry in one resolves to the same entry in the other, and neither
\* reports the name unknown while the other succeeds.
LookupsNormalizeAlike ==
    /\ (lk.config.status = "ok") <=> (lk.module.status = "ok")
    /\ lk.config.status = "ok" => lk.config.key = lk.module.key

(***************************************************************************)
(* SpecFlatten: flatten_dict on nested mappings.  A mapping is the         *)
(* sequence of its items in iteration order; a value is a leaf or a        *)
(* nested mapping.                                                         *)
(***************************************************************************)
Item(k, v) == [k |-> k, v |-> v]

\* isinstance(v, (Dict, DictConfig))
IsMapping(v) == DOMAIN v = {"sub"}

\* An assignment that keeps the value a key already has.
setitem_first_wins(config, k, v) ==
    IF \E i \in DOMAIN config : config[i].k = k THEN config
    ELSE Append(config, Item(k, v))

\* config[k] = v on an ordered mapping.
setitem(config, k, v) ==
    IF \E i \in DOMAIN config : config[i].k = k
    THEN [i \in DOMAIN config |->
            IF config[i].k = k THEN Item(k, v) ELSE config[i]]
    ELSE Append(config, Item(k, v))

\* config.update(other): other's items in order.
RECURSIVE dict_update(_, _)
dict_update(config, other) ==
    IF other = <<>> THEN config
    ELSE dict_update(setitem(config, Head(other).k, Head(other).v), Tail(other))

RECURSIVE flatten_dict(_)
RECURSIVE flatten_items(_, _)
\* The loop of flatten_dict over the items left, config being the result so far.
flatten_items(items, config) ==
    IF items = <<>> THEN config
    ELSE flatten_items(
            Tail(items),
            IF IsMapping(Head(items).v)
            THEN dict_update(config, flatten_dict(Head(items).v.sub))
            ELSE setitem(config, Head(items).k, Head(items).v))

flatten_dict(dict_config) == flatten_items(dict_config, <<>>)

FlatKeys == {"a", "b"}

FlatLeaves == {[leaf |-> "x"], [leaf |-> "y"]}

KeysOf(m) == {m[i].k : i \in DOMAIN m}

\* The nested mappings of n items in all, counted at every depth, and the
\* values that account for s of them.
RECURSIVE MapsOfSize(_)
RECURSIVE ValuesOfSize(_)
ValuesOfSize(s) ==
    IF s = 1 THEN FlatLeaves \cup {[sub |-> <<>>]}
    ELSE {[sub |-> m] : m \in MapsOfSize(s - 1)}

MapsOfSize(n) ==
    IF n = 0 THEN {<<>>}
    ELSE UNION { UNION { {Append(m, Item(k, v)) : k \in FlatKeys \ KeysOf(m)} :
                            m \in MapsOfSize(n - s), v \in ValuesOfSize(s) } :
                 s \in 1..n }

NestedMaps == UNION {MapsOfSize(n) : n \in 0..MaxItems}

Flatten ==
    /\ ~fl.called
    /\ fl' = [fl EXCEPT !.called = TRUE, !.output = flatten_dict(fl.input)]
    /\ UNCHANGED <<obj, ctor, fs, hub, ret, nops, lk, push>>

InitFlatten ==
    /\ obj = [cls |-> "ModelConfig", d |-> construct("ModelConfig", Empty).d]
    /\ ctor = obj.d["config_type"]
    /\ fs = [isdir |-> FALSE, file |-> NoFile]
    /\ hub = NoFile
    /\ ret = NoCall
    /\ nops = 0
    /\ lk = NoLookups
    /\ push = NoPush
    /\ fl \in {[NoFlatten EXCEPT !.input = d] : d \in NestedMaps}

NextFlatten == Flatten

SpecFlatten == InitFlatten /\ [][NextFlatten]_vars

\* The leaves of a nested mapping in the order a depth-first walk meets them.
RECURSIVE leaf_items(_)
leaf_items(d) ==
    IF d = <<>> THEN <<>>
    ELSE (IF IsMapping(Head(d).v) THEN leaf_items(Head(d).v.sub) ELSE <<Head(d)>>)
         \o leaf_items(Tail(d))

LastIndex(L, k) ==
    CHOOSE j \in DOMAIN L :
        L[j].k = k /\ \A i \in DOMAIN L : L[i].k = k => i <= j

\* C8: flatten_dict returns a single-level mapping holding exactly the leaf
\* keys of its input at every depth, one entry per key, whose value is the one
\* the depth-first walk of the input meets last.
FlattenLastWriteWins ==
    fl.called =>
        LET L == leaf_items(fl.input)
            out == fl.output
        IN  /\ {out[i].k : i \in DOMAIN out} = {L[j].k : j \in DOMAIN L}
            /\ \A i, j \in DOMAIN out : out[i].k = out[j].k => i = j
            /\ \A i \in DOMAIN out :
                  /\ ~IsMapping(out[i].v)
                  /\ out[i].v = L[LastIndex(L, out[i].k)].v

FlattenLastWriteWins_witness ==
    /\ fl.called
    /\ \E i \in DOMAIN fl.input : IsMapping(fl.input[i].v)
    /\ LET L == leaf_items(fl.input)
       IN  \E i, j \in DOMAIN L :
              /\ i < j /\ L[i].k = L[j].k /\ L[i].v # L[j].v
              /\ \E o \in DOMAIN fl.output : fl.output[o] = L[j]

(***************************************************************************)
(* SpecPush: push_to_hub, step by step; each call it makes may raise.      *)
(***************************************************************************)
PushSteps == <<"create_repo", "save", "upload_file">>

\* api.create_repo(repo_id, exist_ok=True): an existing repository is no error.
create_repo(exists, exist_ok, reachable) ==
    IF ~reachable THEN "HubError"
    ELSE IF exists /\ ~exist_ok THEN "RepoExists"
    ELSE "ok"

\* The statement push_to_hub is at: save follows create_repo, upload_file
\* follows save.
may_save(p) == p.pc = "created"

\* The upload placed before the save.
may_upload_early(p) == p.pc = "created"

may_upload(p) == p.pc = "saved"

Raise(step) == [push EXCEPT !.pc = "raised", !.error = step]

CreateRepo(reachable) ==
    /\ push.pc \in {"idle", "uploaded", "raised"}
    /\ push.n < MaxPushes
    /\ LET started == [push EXCEPT !.n = @ + 1, !.done = <<>>, !.error = "",
                                   !.written = NoFile, !.pc = "called"]
           r == create_repo(push.repo, TRUE, reachable)
       IN  push' = IF r = "ok"
                   THEN [started EXCEPT !.pc = "created", !.repo = TRUE,
                                        !.done = <<"create_repo">>]
                   ELSE [started EXCEPT !.pc = "raised", !.error = "create_repo"]
    /\ UNCHANGED <<obj, ctor, fs, hub, ret, nops, lk, fl>>

SaveToCache(writable) ==
    /\ may_save(push)
    /\ push' = IF writable
               THEN [push EXCEPT !.pc = "saved", !.cache = save(obj),
                                 !.written = save(obj),
                                 !.done = Append(@, "save")]
               ELSE Raise("save")
    /\ UNCHANGED <<obj, ctor, fs, hub, ret, nops, lk, fl>>

UploadFile(reachable) ==
    /\ may_upload(push)
    /\ push' = IF reachable
               THEN [push EXCEPT !.pc = "uploaded", !.remote = push.cache,
                                 !.done = Append(@, "upload_file")]
               ELSE Raise("upload_file")
    /\ UNCHANGED <<obj, ctor, fs, hub, ret, nops, lk, fl>>

\* The caller changes the config between two pushes.
UpdateBetween(d) ==
    /\ push.pc \in {"idle", "uploaded", "raised"}
    /\ Update(d, Empty)

InitPush ==
    /\ \E i \in Instances : obj = [cls |-> i.cls, d |-> i.d]
    /\ ctor = obj.d["config_type"]
    /\ fs = [isdir |-> FALSE, file |-> NoFile]
    /\ hub = NoFile
    /\ ret = NoCall
    /\ nops = 0
    /\ lk = NoLookups
    /\ fl = NoFlatten
    /\ \E b \in BOOLEAN : push = [NoPush EXCEPT !.repo = b]

NextPush ==
    \/ \E b \in BOOLEAN : CreateRepo(b)
    \/ \E b \in BOOLEAN : SaveToCache(b)
    \/ \E b \in BOOLEAN : UploadFile(b)
    \/ \E d \in UpdateArgs : UpdateBetween(d)

SpecPush == InitPush /\ [][NextPush]_vars

IsPrefix(s, t) == Len(s) <= Len(t) /\ \A i \in DOMAIN s : s[i] = t[i]

====
